---- MODULE Spec2Model ----
(***************************************************************************)
(* Model of spt_client.py: the SpotifyClient class (four read operations,  *)
(* each one blocking HTTP GET followed by a translation of the response),  *)
(* the embedded self-test unit_tests() and the command-line entry point    *)
(* main().                                                                 *)
(*                                                                         *)
(* The remote service is the environment: each GET is answered by a        *)
(* response chosen nondeterministically from a small set.  An operation's  *)
(* outcome is either a returned value or a raised exception.               *)
(*                                                                         *)
(* Spec      a caller that has constructed a SpotifyClient and calls its   *)
(*           operations in any order with any arguments.                   *)
(* MainSpec  one run of main().                                            *)
(***************************************************************************)
EXTENDS Integers, Sequences, FiniteSets, TLC

VARIABLES
    _main_api_path,  \* self._main_api_path of the client ("<unset>" before construction)
    calls,           \* number of client operations called so far
    gets,            \* number of HTTP GETs issued so far
    call,            \* the latest client call: op, args, request, response, outcome
    pc,              \* position of main(); "imported" when the module is used as a library
    argv,            \* command line of the run: <<>> or <<"-a", artist_id>>
    locals,          \* main()'s local variables, each <<>> (unbound) or <<value>>
    stdout,          \* lines printed so far
    error            \* <<>> or <<uncaught exception that ended the run>>

vars == <<_main_api_path, calls, gets, call, pc, argv, locals, stdout, error>>

----------------------------------------------------------------------------
(* Bounds of the model *)

MaxCalls == 2      \* calls a library caller makes
MaxArtists == 2    \* longest "artists" array the service returns
MaxItems == 2      \* longest "items" array the service returns
MaxTracks == 2     \* longest "tracks" array the service returns

----------------------------------------------------------------------------
(* Outcomes of a Python call: a returned value or a raised exception *)

Return(v) == [kind |-> "return", exc |-> "", message |-> "", value |-> <<v>>]

Raise(exc, message) == [kind |-> "raise", exc |-> exc, message |-> message, value |-> <<>>]

SpotifyClientException(message) == Raise("SpotifyClientException", message)

----------------------------------------------------------------------------
(* Python built-ins the client uses *)

RECURSIVE SeqsUpTo(_, _)
SeqsUpTo(S, n) ==
    IF n = 0 THEN {<<>>}
    ELSE LET shorter == SeqsUpTo(S, n - 1)
         IN  shorter \cup {Append(s, x) : s \in {t \in shorter : Len(t) = n - 1}, x \in S}

\* Code points of the strings that get compared (ord() of each character).
CodePoints ==
    "Muse" :> <<77, 117, 115, 101>> @@ "a-ha" :> <<97, 45, 104, 97>>

\* str.__lt__: lexicographic on code points, a proper prefix is smaller.
RECURSIVE LexLess(_, _)
LexLess(a, b) ==
    IF b = <<>> THEN FALSE
    ELSE IF a = <<>> THEN TRUE
    ELSE IF Head(a) # Head(b) THEN Head(a) < Head(b)
    ELSE LexLess(Tail(a), Tail(b))

str_lt(a, b) == LexLess(CodePoints[a], CodePoints[b])

int_lt(a, b) == a < b

\* One insertion of a stable sort: index i goes before the first index of
\* `order` whose key is strictly greater (before(keys[i], keys[order[k]])).
RECURSIVE InsertStable(_, _, _)
InsertStable(order, i, before) ==
    IF order = <<>> THEN <<i>>
    ELSE IF before[i][Head(order)] THEN <<i>> \o order
    ELSE <<Head(order)>> \o InsertStable(Tail(order), i, before)

RECURSIVE StableOrder(_, _)
StableOrder(n, before) ==
    IF n = 0 THEN <<>>
    ELSE InsertStable(StableOrder(n - 1, before), n, before)

\* "<" of the keys' type.
py_lt(type, a, b) == IF type = "str" THEN str_lt(a, b) ELSE int_lt(a, b)

\* sorted(iterable, key=..., **kwargs).  keys[i] is the key function applied
\* to iterable[i] and type the type of the keys.  sorted() takes the keyword
\* arguments key and reverse only: any other keyword is a TypeError, raised
\* before anything is sorted.
sorted(iterable, keys, type, kwargs) ==
    IF \E k \in DOMAIN kwargs : k # "reverse"
    THEN Raise("TypeError",
               "'" \o (CHOOSE k \in DOMAIN kwargs : k # "reverse")
                   \o "' is an invalid keyword argument for sort()")
    ELSE LET n == Len(iterable)
             reverse == "reverse" \in DOMAIN kwargs /\ kwargs["reverse"]
             before == [i \in 1..n |-> [j \in 1..n |->
                          IF reverse THEN py_lt(type, keys[j], keys[i])
                                     ELSE py_lt(type, keys[i], keys[j])]]
             order == StableOrder(n, before)
         IN  Return([k \in 1..n |-> iterable[order[k]]])

\* [key(item) for item in items] with key = lambda item: item[field]
keys_of(items, field) == [i \in 1..Len(items) |-> items[i][field]]

\* ','.join(ids)
RECURSIVE join(_, _)
join(sep, strs) ==
    IF strs = <<>> THEN ""
    ELSE IF Len(strs) = 1 THEN Head(strs)
    ELSE Head(strs) \o sep \o join(sep, Tail(strs))

----------------------------------------------------------------------------
(* The remote service: what a GET can be answered with *)

ArtistIds == {"3qm84nBOXUEQ2vnTfUTTFC", "bad-id"}

IdLists == {<<"a">>, <<"a", "b">>}

SortBys == {"default", "name", "popularity", "bogus", "Name"}

Quantities == {1, 10}

Countries == {"PL", "US"}

ErrStatuses == {204, 401, 404}

ErrorBody(s) == [error |-> [status |-> s]]

ErrorResponses == {[status_code |-> s, json |-> ErrorBody(s)] : s \in ErrStatuses}

Ok(body) == [status_code |-> 200, json |-> body]

GunsNRoses == [name |-> "Guns N' Roses", popularity |-> 82, id |-> "3qm84nBOXUEQ2vnTfUTTFC"]

ArtistBodies ==
    {GunsNRoses,
     [name |-> "Muse", popularity |-> 90, id |-> "12Chz98pHFMPJEknJQMWvI"],
     [popularity |-> 10, id |-> "bad-id"]}

ArtistResponses == {Ok(b) : b \in ArtistBodies} \cup ErrorResponses

BatchEntries == [name : {"Muse", "a-ha"}, popularity : {10, 90}]

BatchResponses ==
    {Ok([artists |-> a]) : a \in SeqsUpTo(BatchEntries, MaxArtists)} \cup ErrorResponses

AlbumEntries == [name : {"Appetite for Destruction", "Use Your Illusion I"}]

AlbumResponses ==
    {Ok([items |-> a]) : a \in SeqsUpTo(AlbumEntries, MaxItems)} \cup ErrorResponses

TrackEntries == [name : {"Paradise City", "Patience"}, popularity : {10, 90}]

TrackResponses ==
    {Ok([tracks |-> a]) : a \in SeqsUpTo(TrackEntries, MaxTracks)} \cup ErrorResponses

----------------------------------------------------------------------------
(* class SpotifyClient *)

\* SpotifyClient.__init__: the value given to self._main_api_path.
SpotifyClient__init__ == "https://api.spotify.com/v1/artists"

\* The request each operation builds: the url and the query parameters.
get_artist_data_request(self, artist_id) ==
    [url |-> self \o "/" \o artist_id, params |-> <<>>]

get_multiple_artists_data_request(self, ids) ==
    [url |-> self, params |-> [ids |-> join(",", ids)]]

get_artist_albums_titles_request(self, artist_id, quantity) ==
    [url |-> self \o "/" \o artist_id \o "/albums", params |-> [limit |-> quantity]]

get_best_songs_request(self, artist_id, country) ==
    [url |-> self \o "/" \o artist_id \o "/top-tracks", params |-> [country |-> country]]

\* Variant of get_artist_data without the status check of line 30.
get_artist_data_unchecked(artist_id, res) == Return(res.json)

\* What each operation does with the response res of its GET.
get_artist_data(artist_id, res) ==
    IF res.status_code # 200
    THEN SpotifyClientException("Improper client id or service unavailable")
    ELSE Return(res.json)

\* `return results`: results is a local that only some branches bind.
return_local(name, binding) ==
    IF binding = <<>>
    THEN Raise("UnboundLocalError",
               "local variable '" \o name \o "' referenced before assignment")
    ELSE Return(binding[1])

\* Variant of get_multiple_artists_data whose final else branch (line 58)
\* falls back to the server's order instead of raising.
get_multiple_artists_data_lenient(ids, sort_by, res) ==
    IF res.status_code # 200
    THEN SpotifyClientException("Improper client id or service unavailable")
    ELSE IF sort_by \in {"name", "popularity"} /\ res.json.artists = <<>>
    THEN return_local("results", <<>>)
    ELSE IF sort_by = "name"
    THEN sorted(res.json.artists, keys_of(res.json.artists, "name"), "str", <<>>)
    ELSE IF sort_by = "popularity"
    THEN sorted(res.json.artists, keys_of(res.json.artists, "popularity"), "int",
                [reversed |-> TRUE])
    ELSE Return(res.json.artists)

get_multiple_artists_data(ids, sort_by, res) ==
    IF res.status_code # 200
    THEN SpotifyClientException("Improper client id or service unavailable")
    ELSE IF sort_by = "default"
    THEN return_local("results", <<res.json.artists>>)
    ELSE IF sort_by = "name"
    THEN LET artist_list == res.json.artists
         IN  IF artist_list # <<>>
             THEN LET s == sorted(artist_list, keys_of(artist_list, "name"), "str", <<>>)
                  IN  IF s.kind = "raise" THEN s ELSE return_local("results", s.value)
             ELSE return_local("results", <<>>)
    ELSE IF sort_by = "popularity"
    THEN LET artist_list == res.json.artists
         IN  IF artist_list # <<>>
             THEN LET s == sorted(artist_list, keys_of(artist_list, "popularity"), "int",
                                  [reversed |-> TRUE])
                  IN  IF s.kind = "raise" THEN s ELSE return_local("results", s.value)
             ELSE return_local("results", <<>>)
    ELSE SpotifyClientException("Improper value of sort_by")

\* Variant of get_artist_albums_titles that cuts the titles to quantity
\* (titles[:quantity] at line 79).
get_artist_albums_titles_truncated(artist_id, quantity, res) ==
    IF res.status_code # 200
    THEN SpotifyClientException("Improper client id or service unavailable")
    ELSE LET items == res.json.items
             n == IF Len(items) < quantity THEN Len(items) ELSE quantity
         IN  Return([i \in 1..n |-> items[i].name])

get_artist_albums_titles(artist_id, quantity, res) ==
    IF res.status_code # 200
    THEN SpotifyClientException("Improper client id or service unavailable")
    ELSE LET response_json == res.json
             titles == [i \in 1..Len(response_json.items) |-> response_json.items[i].name]
         IN  Return(titles)

\* Variant of get_best_songs that sorts the pairs by popularity, highest
\* first, before returning them (line 100 says no sort is needed).
get_best_songs_sorted(artist_id, country, res) ==
    IF res.status_code # 200
    THEN SpotifyClientException(
             "Improper client id or country code or service unavailable")
    ELSE LET tracks == [i \in 1..Len(res.json.tracks) |->
                          <<res.json.tracks[i].name, res.json.tracks[i].popularity>>]
         IN  sorted(tracks, keys_of(tracks, 2), "int", [reverse |-> TRUE])

get_best_songs(artist_id, country, res) ==
    IF res.status_code # 200
    THEN SpotifyClientException(
             "Improper client id or country code or service unavailable")
    ELSE LET response_json == res.json
             tracks == [i \in 1..Len(response_json.tracks) |->
                          <<response_json.tracks[i].name, response_json.tracks[i].popularity>>]
         IN  Return(tracks)

\* Variant of requests_get that repeats the GET once after a non-200 response.
requests_get_retry(request, res) ==
    gets' = gets + (IF res.status_code # 200 THEN 2 ELSE 1)

\* requests.get(url, params=...): one HTTP GET goes out and res comes back.
requests_get(request, res) == gets' = gets + 1

\* One call of a client operation, from its first line to its return or raise.
Invoke(op, args, request, res, out) ==
    /\ requests_get(request, res)
    /\ calls' = calls + 1
    /\ call' = [op |-> op, args |-> args, request |-> request, res |-> res, out |-> out]
    /\ UNCHANGED _main_api_path

----------------------------------------------------------------------------
(* A caller of the library *)

NoCall ==
    [op |-> "none", args |-> <<>>, request |-> [url |-> "", params |-> <<>>],
     res |-> [status_code |-> 0, json |-> <<>>],
     out |-> [kind |-> "none", exc |-> "", message |-> "", value |-> <<>>]]

NoLocals ==
    [test_artist_id |-> <<>>, artist_info |-> <<>>,
     first_10_album_titles |-> <<>>, most_popular_songs |-> <<>>]

Init ==
    /\ _main_api_path = SpotifyClient__init__
    /\ calls = 0
    /\ gets = 0
    /\ call = NoCall
    /\ pc = "imported"
    /\ argv = <<>>
    /\ locals = NoLocals
    /\ stdout = <<>>
    /\ error = <<>>

main_vars == <<pc, argv, locals, stdout, error>>

GetArtistData ==
    /\ pc = "imported"
    /\ calls < MaxCalls
    /\ \E artist_id \in ArtistIds, res \in ArtistResponses :
         Invoke("get_artist_data", [artist_id |-> artist_id],
                get_artist_data_request(_main_api_path, artist_id), res,
                get_artist_data(artist_id, res))
    /\ UNCHANGED main_vars

GetMultipleArtistsData ==
    /\ pc = "imported"
    /\ calls < MaxCalls
    /\ \E ids \in IdLists, sort_by \in SortBys, res \in BatchResponses :
         Invoke("get_multiple_artists_data", [ids |-> ids, sort_by |-> sort_by],
                get_multiple_artists_data_request(_main_api_path, ids), res,
                get_multiple_artists_data(ids, sort_by, res))
    /\ UNCHANGED main_vars

GetArtistAlbumsTitles ==
    /\ pc = "imported"
    /\ calls < MaxCalls
    /\ \E artist_id \in ArtistIds, quantity \in Quantities, res \in AlbumResponses :
         Invoke("get_artist_albums_titles", [artist_id |-> artist_id, quantity |-> quantity],
                get_artist_albums_titles_request(_main_api_path, artist_id, quantity), res,
                get_artist_albums_titles(artist_id, quantity, res))
    /\ UNCHANGED main_vars

GetBestSongs ==
    /\ pc = "imported"
    /\ calls < MaxCalls
    /\ \E artist_id \in ArtistIds, country \in Countries, res \in TrackResponses :
         Invoke("get_best_songs", [artist_id |-> artist_id, country |-> country],
                get_best_songs_request(_main_api_path, artist_id, country), res,
                get_best_songs(artist_id, country, res))
    /\ UNCHANGED main_vars

Next == GetArtistData \/ GetMultipleArtistsData \/ GetArtistAlbumsTitles \/ GetBestSongs

Spec == Init /\ [][Next]_vars

----------------------------------------------------------------------------
(* unit_tests() and main() *)

\* The session's mock adapter is mounted on the prefix 'mock' only, so the
\* self-test's GET of an https url is answered by the remote service.
UnitResponses == ArtistResponses \cup {Ok(<<>>)}

\* Response.raise_for_status(): HTTPError for a 4xx or 5xx status.
raise_for_status(resp) ==
    IF 400 <= resp.status_code /\ resp.status_code < 600
    THEN Raise("HTTPError", "")
    ELSE Return("None")

unit_tests(resp) ==
    IF raise_for_status(resp).kind = "raise"
    THEN Raise("Exception", "Tests failed")
    ELSE IF DOMAIN resp.json = {}
    THEN Raise("Exception", "Tests failed")
    ELSE IF "name" \notin DOMAIN resp.json
    THEN Raise("KeyError", "name")
    ELSE IF resp.json.name # "Guns N' Roses"
    THEN Raise("Exception", "Tests failed")
    ELSE Return("None")

\* ArgumentParser.parse_args() with the required option -a/--artist_id.
parse_args(args) ==
    IF Len(args) = 2 /\ args[1] \in {"-a", "--artist_id"}
    THEN Return([artist_id |-> args[2]])
    ELSE Raise("SystemExit", "the following arguments are required: -a/--artist_id")

\* Variant of Proceed in which main() reports an exception and carries on
\* with its next statement.
Proceed_carry_on(out, next) ==
    /\ pc' = next
    /\ error' = IF out.kind = "raise" THEN <<out.exc>> ELSE error

\* What main() does after a statement with outcome `out`: an exception is not
\* caught anywhere, it ends the run.
Proceed(out, next) ==
    /\ pc' = IF out.kind = "raise" THEN "error" ELSE next
    /\ error' = IF out.kind = "raise" THEN <<out.exc>> ELSE error

\* line 130
MainUnitTests ==
    /\ pc = "unit_tests"
    /\ \E resp \in UnitResponses :
         /\ gets' = gets + 1
         /\ Proceed(unit_tests(resp), "parse_args")
    /\ UNCHANGED <<_main_api_path, calls, call, argv, locals, stdout>>

\* lines 132-137
MainParseArgs ==
    /\ pc = "parse_args"
    /\ LET args == parse_args(argv)
       IN  /\ Proceed(args, "get_artist_data")
           /\ IF args.kind = "raise"
              THEN UNCHANGED <<locals, _main_api_path>>
              ELSE /\ locals' = [locals EXCEPT !.test_artist_id = <<args.value[1].artist_id>>]
                   /\ _main_api_path' = SpotifyClient__init__
    /\ UNCHANGED <<calls, gets, call, argv, stdout>>

\* line 139
MainGetArtistData ==
    /\ pc = "get_artist_data"
    /\ \E res \in ArtistResponses :
         LET artist_id == locals.test_artist_id[1]
             out == get_artist_data(artist_id, res)
         IN  /\ Invoke("get_artist_data", [artist_id |-> artist_id],
                       get_artist_data_request(_main_api_path, artist_id), res, out)
             /\ Proceed(out, "get_artist_albums_titles")
             /\ locals' = [locals EXCEPT !.artist_info = out.value]
    /\ UNCHANGED <<argv, stdout>>

\* line 140: quantity takes its default, 10
MainGetArtistAlbumsTitles ==
    /\ pc = "get_artist_albums_titles"
    /\ \E res \in AlbumResponses :
         LET artist_id == locals.test_artist_id[1]
             out == get_artist_albums_titles(artist_id, 10, res)
         IN  /\ Invoke("get_artist_albums_titles", [artist_id |-> artist_id, quantity |-> 10],
                       get_artist_albums_titles_request(_main_api_path, artist_id, 10), res, out)
             /\ Proceed(out, "get_best_songs")
             /\ locals' = [locals EXCEPT !.first_10_album_titles = out.value]
    /\ UNCHANGED <<argv, stdout>>

\* line 141: country takes its default, 'PL'
MainGetBestSongs ==
    /\ pc = "get_best_songs"
    /\ \E res \in TrackResponses :
         LET artist_id == locals.test_artist_id[1]
             out == get_best_songs(artist_id, "PL", res)
         IN  /\ Invoke("get_best_songs", [artist_id |-> artist_id, country |-> "PL"],
                       get_best_songs_request(_main_api_path, artist_id, "PL"), res, out)
             /\ Proceed(out, "print_artist")
             /\ locals' = [locals EXCEPT !.most_popular_songs = out.value]
    /\ UNCHANGED <<argv, stdout>>

\* line 143: artist_info['name'] is a KeyError when the body has no name
MainPrintArtist ==
    /\ pc = "print_artist"
    /\ LET artist_info == locals.artist_info[1]
       IN  IF "name" \in DOMAIN artist_info
           THEN /\ stdout' = Append(stdout, <<"Artist:", artist_info.name>>)
                /\ Proceed(Return("None"), "print_albums")
           ELSE /\ stdout' = stdout
                /\ Proceed(Raise("KeyError", "name"), "print_albums")
    /\ UNCHANGED <<_main_api_path, calls, gets, call, argv, locals>>

\* line 144
MainPrintAlbums ==
    /\ pc = "print_albums"
    /\ stdout' = Append(stdout, <<"First 10 album titles:", locals.first_10_album_titles[1]>>)
    /\ Proceed(Return("None"), "print_songs")
    /\ UNCHANGED <<_main_api_path, calls, gets, call, argv, locals>>

\* line 145
MainPrintSongs ==
    /\ pc = "print_songs"
    /\ stdout' = Append(stdout, <<"Most popular songs:", locals.most_popular_songs[1]>>)
    /\ Proceed(Return("None"), "done")
    /\ UNCHANGED <<_main_api_path, calls, gets, call, argv, locals>>

MainInit ==
    /\ _main_api_path = "<unset>"
    /\ calls = 0
    /\ gets = 0
    /\ call = NoCall
    /\ pc = "unit_tests"
    /\ argv \in {<<>>} \cup {<<"-a", id>> : id \in ArtistIds}
    /\ locals = NoLocals
    /\ stdout = <<>>
    /\ error = <<>>

MainNext ==
    \/ MainUnitTests
    \/ MainParseArgs
    \/ MainGetArtistData
    \/ MainGetArtistAlbumsTitles
    \/ MainGetBestSongs
    \/ MainPrintArtist
    \/ MainPrintAlbums
    \/ MainPrintSongs

MainSpec == MainInit /\ [][MainNext]_vars

----------------------------------------------------------------------------
(* Properties *)

Ops == {"get_artist_data", "get_multiple_artists_data",
        "get_artist_albums_titles", "get_best_songs"}

Raised(exc) == call.out.kind = "raise" /\ call.out.exc = exc /\ call.out.value = <<>>

Returned == call.out.kind = "return" /\ Len(call.out.value) = 1

Count(x, seq) == Cardinality({i \in DOMAIN seq : seq[i] = x})

SameMultiset(a, b) ==
    /\ Len(a) = Len(b)
    /\ \A i \in DOMAIN a : Count(a[i], a) = Count(a[i], b)

BatchCall(sort_by) ==
    /\ call.op = "get_multiple_artists_data"
    /\ call.res.status_code = 200
    /\ call.args.sort_by = sort_by

\* C1: whichever of the four operations was called and whatever its
\* arguments (every sort_by included), a response whose status is not 200
\* makes the call raise SpotifyClientException and return no value.
C1_NonOkRaises ==
    (call.op \in Ops /\ call.res.status_code # 200)
        => Raised("SpotifyClientException")

C1_Witness ==
    /\ call.op = "get_multiple_artists_data"
    /\ call.args.sort_by = "popularity"
    /\ call.res.status_code = 404
    /\ Raised("SpotifyClientException")

\* C2: with status 200 and sort_by 'popularity', get_multiple_artists_data
\* returns the server's artists reordered non-increasingly by popularity
\* (same multiset of elements).
C2_PopularityDescending ==
    BatchCall("popularity")
        => /\ Returned
           /\ LET result == call.out.value[1]
              IN  /\ SameMultiset(result, call.res.json.artists)
                  /\ \A i, j \in DOMAIN result :
                       i < j => result[i].popularity >= result[j].popularity

\* C3: with status 200 and sort_by 'name', get_multiple_artists_data returns
\* the server's artists reordered non-decreasingly by name (same multiset of
\* elements), whatever the artists array is.
C3_NameAscending ==
    BatchCall("name")
        => /\ Returned
           /\ LET result == call.out.value[1]
              IN  /\ SameMultiset(result, call.res.json.artists)
                  /\ \A i, j \in DOMAIN result :
                       i < j => ~str_lt(result[j].name, result[i].name)

\* C4: with status 200, sort_by 'name' and an empty artists array,
\* get_multiple_artists_data returns the empty sequence.
C4_NameEmpty ==
    (BatchCall("name") /\ call.res.json.artists = <<>>)
        => (Returned /\ call.out.value = << <<>> >>)

\* C5: with status 200 and a sort_by other than 'default', 'name' and
\* 'popularity', get_multiple_artists_data raises SpotifyClientException
\* with the invalid-sort-option message and returns no value.
C5_UnknownSortByRaises ==
    (/\ call.op = "get_multiple_artists_data"
     /\ call.res.status_code = 200
     /\ call.args.sort_by \notin {"default", "name", "popularity"})
        => (/\ Raised("SpotifyClientException")
            /\ call.out.message = "Improper value of sort_by")

C5_Witness ==
    /\ BatchCall("bogus")
    /\ Len(call.res.json.artists) = 2
    /\ Raised("SpotifyClientException")
    /\ call.out.message = "Improper value of sort_by"

\* C6: get_multiple_artists_data either returns a sequence or raises
\* SpotifyClientException, and it raises only when the status is not 200 or
\* sort_by is unrecognized.
C6_OnlyClientException ==
    call.op = "get_multiple_artists_data"
        => /\ Returned \/ Raised("SpotifyClientException")
           /\ call.out.kind = "raise"
                => \/ call.res.status_code # 200
                   \/ call.args.sort_by \notin {"default", "name", "popularity"}

\* C7: with status 200, get_best_songs returns one pair (name, popularity)
\* per entry of the server's tracks array, in the server's order.
C7_TracksInServerOrder ==
    (call.op = "get_best_songs" /\ call.res.status_code = 200)
        => /\ Returned
           /\ LET tracks == call.res.json.tracks
                  result == call.out.value[1]
              IN  /\ Len(result) = Len(tracks)
                  /\ \A i \in DOMAIN tracks :
                       result[i] = <<tracks[i].name, tracks[i].popularity>>

\* the server's order is not popularity-descending and is kept
C7_Witness ==
    /\ call.op = "get_best_songs"
    /\ call.res.status_code = 200
    /\ Returned
    /\ Len(call.res.json.tracks) = 2
    /\ call.res.json.tracks[1].popularity < call.res.json.tracks[2].popularity
    /\ call.out.value[1][1][2] < call.out.value[1][2][2]

C9_OneGetPerCall ==
    /\ [](gets = calls /\ _main_api_path = "https://api.spotify.com/v1/artists")
    /\ [][/\ calls' = calls + 1
          /\ gets' = gets + 1
          /\ _main_api_path' = _main_api_path]_vars

\* two calls, the second one refused for its sort_by after its GET went out
C9_Witness ==
    /\ calls = 2
    /\ gets = 2
    /\ BatchCall("bogus")
    /\ Raised("SpotifyClientException")

\* C10: what holds in every state of a run of main().
C10_State ==
    /\ calls <= 3
    /\ calls = 1 => call.op = "get_artist_data"
    /\ calls = 2 => call.op = "get_artist_albums_titles"
    /\ calls = 3 => call.op = "get_best_songs"
    /\ calls >= 1 => (Len(argv) = 2 /\ call.args.artist_id = argv[2])
    /\ (error # <<>> \/ call.out.kind = "raise") => (pc = "error" /\ stdout = <<>>)
    /\ pc = "error" => error # <<>>
    /\ stdout # <<>> => (calls = 3 /\ call.out.kind = "return")

\* C10: what holds of every step of a run of main().
C10_Step ==
    /\ pc # "error"
    /\ calls' # calls =>
          /\ calls' = calls + 1
          /\ gets = calls + 1
          /\ error = <<>>
          /\ calls >= 1 => call.out.kind = "return"

\* C10: main() runs the self-test first, then calls get_artist_data,
\* get_artist_albums_titles and get_best_songs in that order for the artist
\* id of the command line; it prints only after all three calls returned;
\* a failure of the self-test or of a call ends the run in an error, with
\* no later call and nothing printed.
C10_MainSequence == []C10_State /\ [][C10_Step]_vars

C10_Witness ==
    /\ pc = "done"
    /\ calls = 3
    /\ gets = 4
    /\ Len(stdout) = 3
    /\ error = <<>>

====
